---- MODULE Spec2Model ----
(***************************************************************************)
(* P5VoiceToText, categorizedText package: the IMIST-AMBO glossary         *)
(* (Imist_ambo_template collection), the stored classifications            *)
(* (Text_categorization collection), the classifier of ClassifyText and    *)
(* the request handlers of routes.py that drive them.                      *)
(*                                                                         *)
(* A converted text is represented by the list of its sentences and a      *)
(* sentence by the list of its word_tokenize tokens; two sentences are the  *)
(* same string exactly when their token lists are equal.  Every            *)
(* handler is one atomic step (requests are taken one at a time here).     *)
(***************************************************************************)
EXTENDS Naturals, Sequences, FiniteSets, TLC

VARIABLES
    glossary,        \* Imist_ambo_template collection, in insertion order
    converted_text,  \* Voice_text_conversion: voice file -> list of sentences
    categorized,     \* Text_categorization collection, in insertion order
    last,            \* the request handled last and what it answered
    runs,            \* the clean_and_classify runs of that request, in order
    requests,        \* glossary requests in progress, when they interleave
    argument,        \* the string a function is called on, as characters
    result           \* what the function returned for it

vars == <<glossary, converted_text, categorized, last, runs,
          requests, argument, result>>

----------------------------------------------------------------------------
(* Bounds *)

\* most documents the glossary collection may hold
MaxGlossary == 6

----------------------------------------------------------------------------
(* Program constants *)

\* insert_into_imist_ambo: "return 1" after an insert or an update
RET_STORED == 1
\* insert_into_imist_ambo: "return 2" when the pair already exists
RET_EXISTS == 2

HTTP_OK == 200
HTTP_CREATED == 201
HTTP_NOT_FOUND == 404
HTTP_ERROR == 500

\* the keys of ClassifyText.category_keyword
CategoryKeys ==
    {"identification", "mechanism", "injury", "signs", "treatment",
     "allergy", "medication", "background", "other"}

\* ClassifyText.__init__: every key starts with an empty list
InitCategoryKeyword == [c \in CategoryKeys |-> <<>>]

\* the entries of map_keyword_category whose keywords are built from the
\* vocabulary below, in the order of the source list
map_keyword_category ==
    << [keyword |-> "hit",   category |-> "mechanism"],
       [keyword |-> "blunt", category |-> "trauma"],
       [keyword |-> "pain",  category |-> "injury"] >>

----------------------------------------------------------------------------
(* Inputs *)

\* the voice files on record, each with a converted text
VoiceFiles == {"f1", "f2"}

SHit   == <<"He", "was", "hit", ".">>
SFall  == <<"Fall", "with", "chest", "pain", ".">>
SBlunt == <<"Blunt", "force", ".">>

\* converted texts, each given by its sentences
TextSamples ==
    { <<SHit>>, <<SFall, SFall>>, <<SBlunt, SHit>> }

\* request.json['keyword'], split at " "
KeywordInputs == { <<"hits">>, <<"chest", "pain">> }

\* request.json['category']: no handler validates it
CategoryInputs == {"injury", "other", "trauma"}

----------------------------------------------------------------------------
(* Normalizer *)

\* sentence.lower(), token by token
Lower(w) ==
    CASE w = "He"      -> "he"
      [] w = "Fall"    -> "fall"
      [] w = "Blunt"   -> "blunt"
      [] OTHER         -> w

\* stopwords.words('english') + punctuation, restricted to the vocabulary
stop_words == {"he", "was", "with", "."}

\* wordnet_lemmatizer.lemmatize(ps.stem(word)) on the vocabulary
StemLemma(w) ==
    CASE w = "hits"  -> "hit"
      [] w = "force" -> "forc"
      [] OTHER       -> w

\* remove_stopwords: lower-case, tokenize, drop the stop words
remove_stopwords(sentence) ==
    LET lowered == [i \in DOMAIN sentence |-> Lower(sentence[i])]
    IN  SelectSeq(lowered, LAMBDA w : w \notin stop_words)

\* stemming_and_lemmatization_text: no token of the vocabulary has a dot,
\* so every word takes the stem-and-lemmatize branch
stemming_and_lemmatization_text(words) ==
    [i \in DOMAIN words |-> StemLemma(words[i])]

clean_text(sentence) ==
    stemming_and_lemmatization_text(remove_stopwords(sentence))

RECURSIVE JoinWords(_)
\* the words joined by single spaces
JoinWords(ws) ==
    IF Len(ws) = 0 THEN ""
    ELSE IF Len(ws) = 1 THEN ws[1]
    ELSE ws[1] \o " " \o JoinWords(Tail(ws))

\* insert_into_imist_ambo, keyword normalisation: each token stemmed and
\* lemmatized, rejoined with " " and stripped
NormalizeKeyword(tokens) ==
    JoinWords([i \in DOMAIN tokens |-> StemLemma(tokens[i])])

----------------------------------------------------------------------------
(* Glossary store *)

\* Imist_ambo_template.objects.filter(keyword=kw)
FilterKeyword(g, kw) == SelectSeq(g, LAMBDA e : e.keyword = kw)

\* index of the first document with keyword kw (0 when there is none)
FirstIndex(g, kw) ==
    IF \E i \in DOMAIN g : g[i].keyword = kw
    THEN CHOOSE i \in DOMAIN g :
            /\ g[i].keyword = kw
            /\ \A j \in DOMAIN g : g[j].keyword = kw => i <= j
    ELSE 0

----------------------------------------------------------------------------
(* Classifier *)

Contains(seq, x) == \E i \in DOMAIN seq : seq[i] = x

\* one lookup of classify_text_into_categories: st is the instance state
\* [ck, assigned, raised]; a category that is no key of category_keyword
\* raises KeyError
MatchKeyword(st, sentence, kw, g) ==
    IF st.raised THEN st
    ELSE LET imist_ambos == FilterKeyword(g, kw)
         IN  IF Len(imist_ambos) = 0 THEN st
             ELSE LET cat == imist_ambos[1].category
                  IN  IF cat \notin CategoryKeys
                      THEN [st EXCEPT !.raised = TRUE]
                      ELSE IF Contains(st.ck[cat], sentence) THEN st
                      ELSE [st EXCEPT !.ck[cat] = Append(@, sentence),
                                      !.assigned = TRUE]

\* the keywords looked up at position i: unigram, bigram, trigram
NgramKeys(words, i) ==
    <<words[i]>>
    \o (IF i < Len(words)
        THEN <<words[i] \o " " \o words[i+1]>> ELSE <<>>)
    \o (IF i < Len(words) - 1
        THEN <<words[i] \o " " \o words[i+1] \o " " \o words[i+2]>>
        ELSE <<>>)

RECURSIVE AllNgramKeys(_, _)
AllNgramKeys(words, i) ==
    IF i > Len(words) THEN <<>>
    ELSE NgramKeys(words, i) \o AllNgramKeys(words, i + 1)

RECURSIVE MatchAll(_, _, _, _)
MatchAll(st, sentence, keys, g) ==
    IF Len(keys) = 0 THEN st
    ELSE MatchAll(MatchKeyword(st, sentence, keys[1], g),
                  sentence, Tail(keys), g)

\* the fallback with its threshold one word too low
OtherFallbackFromTwoWords(st, sentence, words) ==
    IF st.assigned = FALSE /\ Len(words) >= 2
    THEN [st EXCEPT !.ck["other"] = Append(@, sentence)]
    ELSE st

\* the fallback after the loop
OtherFallback(st, sentence, words) ==
    IF st.assigned = FALSE /\ Len(words) > 2
    THEN [st EXCEPT !.ck["other"] = Append(@, sentence)]
    ELSE st

\* classify_text_into_categories on the instance's category_keyword ck:
\* the new category_keyword and whether KeyError was raised
classify_text_into_categories(ck, sentence, words, g) ==
    LET st0 == [ck |-> ck, assigned |-> FALSE, raised |-> FALSE]
        st  == MatchAll(st0, sentence, AllNgramKeys(words, 1), g)
        fin == IF st.raised THEN st ELSE OtherFallback(st, sentence, words)
    IN  [ck |-> fin.ck, raised |-> fin.raised]

RECURSIVE ClassifySentences(_, _, _)
ClassifySentences(r, sentences, g) ==
    IF r.raised \/ Len(sentences) = 0 THEN r
    ELSE ClassifySentences(
            classify_text_into_categories(
                r.ck, sentences[1], clean_text(sentences[1]), g),
            Tail(sentences), g)

\* clean_and_classify on an instance whose category_keyword is ck
clean_and_classify(ck, text, g) ==
    ClassifySentences([ck |-> ck, raised |-> FALSE], text, g)

----------------------------------------------------------------------------
(* Text_categorization store *)

HasCategorized(cats, f) == \E i \in DOMAIN cats : cats[i].voiceFile = f

\* save_categorizedText_in_db
save_categorizedText_in_db(cats, f, ck) ==
    Append(cats, [voiceFile |-> f, ck |-> ck])

\* update_categorizedText_in_db: the first document of the voice file
update_categorizedText_in_db(cats, f, ck) ==
    LET k == CHOOSE i \in DOMAIN cats :
                /\ cats[i].voiceFile = f
                /\ \A j \in DOMAIN cats : cats[j].voiceFile = f => i <= j
    IN  [cats EXCEPT ![k].ck = ck]

----------------------------------------------------------------------------
(* ReclassificationSweep *)

\* the loop without its reset: the instance keeps the previous document's
\* category_keyword
KeepCategoryKeyword(ck) == ck

\* update_categorized_text_forall_records, the reset at the top of the loop
ResetCategoryKeyword(ck) == InitCategoryKeyword

RECURSIVE SweepFrom(_, _, _, _, _)
\* the loop from document i on: an exception of clean_and_classify
\* propagates and ends it
SweepFrom(i, ck, cats, rs, g) ==
    IF i > Len(cats)
    THEN [categorized |-> cats, runs |-> rs, raised |-> FALSE]
    ELSE LET f    == cats[i].voiceFile
             text == converted_text[f]
             r    == clean_and_classify(ResetCategoryKeyword(ck), text, g)
             rs2  == Append(rs, [text |-> text, ck |-> r.ck,
                                 raised |-> r.raised])
         IN  IF r.raised
             THEN [categorized |-> cats, runs |-> rs2, raised |-> TRUE]
             ELSE SweepFrom(i + 1, r.ck,
                            update_categorizedText_in_db(cats, f, r.ck),
                            rs2, g)

update_categorized_text_forall_records(cats, g) ==
    SweepFrom(1, InitCategoryKeyword, cats, <<>>, g)

----------------------------------------------------------------------------
(* Glossary maintenance *)

\* the comparison made against the wrong field of the document
SameCategoryWrongField(entry, category) == entry.keyword = category

\* insert_into_imist_ambo: "imist_ambo.category==category"
SameCategory(entry, category) == entry.category = category

\* insert_into_imist_ambo up to the call of the sweep: the glossary after
\* the write and whether the function returned early
WriteGlossary(g, keyword, category) ==
    LET k == FirstIndex(g, keyword)
    IN  IF k > 0
        THEN IF SameCategory(g[k], category)
             THEN [glossary |-> g, early |-> TRUE]
             ELSE [glossary |-> [g EXCEPT ![k].category = category],
                   early |-> FALSE]
        ELSE [glossary |-> Append(g, [keyword |-> keyword,
                                      category |-> category]),
              early |-> FALSE]

\* what a call finds: the keyword absent, present with another category,
\* or present with the same category
Outcome(g, keyword, category) ==
    LET k == FirstIndex(g, keyword)
    IN  IF k = 0 THEN "inserted"
        ELSE IF g[k].category = category THEN "unchanged"
        ELSE "updated"

\* the category the keyword had before the call ("" when it was absent)
PreviousCategory(g, keyword) ==
    LET k == FirstIndex(g, keyword)
    IN  IF k = 0 THEN "" ELSE g[k].category

\* the early return answering 1 like the final one
ReturnValueAlwaysStored(early) == RET_STORED

\* insert_into_imist_ambo: "return 2" before any write, "return 1" at the end
ReturnValue(early) == IF early THEN RET_EXISTS ELSE RET_STORED

----------------------------------------------------------------------------
(* Requests *)

NoRequest ==
    [op |-> "none", keyword |-> "", category |-> "", previous |-> "",
     kind |-> "", ret |-> <<>>, status |-> 0]

Init ==
    /\ glossary = <<>>
    /\ converted_text \in [VoiceFiles -> TextSamples]
    /\ categorized = <<>>
    /\ last = NoRequest
    /\ runs = <<>>
    /\ requests = <<>>
    /\ argument = <<>>
    /\ result = <<>>

\* POST /api/categorizedText/<filename>
textCategorization(f) ==
    /\ UNCHANGED <<glossary, converted_text, requests, argument, result>>
    /\ IF HasCategorized(categorized, f)
       THEN /\ UNCHANGED categorized
            /\ runs' = <<>>
            /\ last' = [NoRequest EXCEPT !.op = "POST categorizedText",
                                         !.status = HTTP_OK]
       ELSE LET r == clean_and_classify(InitCategoryKeyword,
                                        converted_text[f], glossary)
            IN  /\ runs' = << [text |-> converted_text[f], ck |-> r.ck,
                               raised |-> r.raised] >>
                /\ categorized' =
                      IF r.raised THEN categorized
                      ELSE save_categorizedText_in_db(categorized, f, r.ck)
                /\ last' = [NoRequest EXCEPT
                              !.op = "POST categorizedText",
                              !.status = IF r.raised THEN HTTP_ERROR
                                         ELSE HTTP_CREATED]

\* PUT /api/categorizedText/<filename>
update_categorizedText(f) ==
    /\ UNCHANGED <<glossary, converted_text, requests, argument, result>>
    /\ IF ~HasCategorized(categorized, f)
       THEN /\ UNCHANGED categorized
            /\ runs' = <<>>
            /\ last' = [NoRequest EXCEPT !.op = "PUT categorizedText",
                                         !.status = HTTP_NOT_FOUND]
       ELSE LET r == clean_and_classify(InitCategoryKeyword,
                                        converted_text[f], glossary)
            IN  /\ runs' = << [text |-> converted_text[f], ck |-> r.ck,
                               raised |-> r.raised] >>
                /\ categorized' =
                      IF r.raised THEN categorized
                      ELSE update_categorizedText_in_db(categorized, f, r.ck)
                /\ last' = [NoRequest EXCEPT
                              !.op = "PUT categorizedText",
                              !.status = IF r.raised THEN HTTP_ERROR
                                         ELSE HTTP_OK]

\* POST /api/imistambo_glossary_inbulk: insert_into_imist_ambo_inbulk
add_imistambo_glossary_inbulk ==
    /\ Len(glossary) + Len(map_keyword_category) <= MaxGlossary
    /\ glossary' = glossary \o map_keyword_category
    /\ UNCHANGED <<converted_text, categorized, requests, argument, result>>
    /\ runs' = <<>>
    /\ last' = [NoRequest EXCEPT !.op = "POST glossary_inbulk",
                                 !.status = HTTP_CREATED]

\* POST /api/imistambo_glossary: insert_into_imist_ambo(keyword, category)
add_imistambo_glossary(tokens, category) ==
    LET keyword == NormalizeKeyword(tokens)
        w       == WriteGlossary(glossary, keyword, category)
        sw      == update_categorized_text_forall_records(categorized,
                                                          w.glossary)
        req     == [NoRequest EXCEPT
                      !.op = "POST glossary", !.keyword = keyword,
                      !.category = category,
                      !.previous = PreviousCategory(glossary, keyword),
                      !.kind = Outcome(glossary, keyword, category)]
    IN  /\ Len(w.glossary) <= MaxGlossary
        /\ UNCHANGED <<converted_text, requests, argument, result>>
        /\ glossary' = w.glossary
        /\ IF w.early
           THEN /\ UNCHANGED categorized
                /\ runs' = <<>>
                /\ last' = [req EXCEPT !.ret = <<ReturnValue(w.early)>>,
                                       !.status = HTTP_OK]
           ELSE /\ categorized' = sw.categorized
                /\ runs' = sw.runs
                /\ last' = IF sw.raised
                           THEN [req EXCEPT !.status = HTTP_ERROR]
                           ELSE [req EXCEPT !.ret = <<ReturnValue(w.early)>>,
                                            !.status = HTTP_CREATED]

Next ==
    \/ \E f \in VoiceFiles : textCategorization(f)
    \/ \E f \in VoiceFiles : update_categorizedText(f)
    \/ add_imistambo_glossary_inbulk
    \/ \E t \in KeywordInputs, c \in CategoryInputs :
            add_imistambo_glossary(t, c)

Spec == Init /\ [][Next]_vars

----------------------------------------------------------------------------
(* Properties *)

Count(seq, x) == Cardinality({i \in DOMAIN seq : seq[i] = x})

Range(seq) == {seq[i] : i \in DOMAIN seq}

\* classify(text, glossary): one run on a fresh ClassifyText instance
Recomputed(f, g) == clean_and_classify(InitCategoryKeyword, converted_text[f], g)

\* the glossary keywords among the 1-, 2- and 3-grams of a sentence
MatchedKeywords(sentence, g) ==
    {kw \in Range(AllNgramKeys(clean_text(sentence), 1)) :
        Len(FilterKeyword(g, kw)) > 0}

\* the categories of those keywords
MatchedCategories(sentence, g) ==
    {FilterKeyword(g, kw)[1].category : kw \in MatchedKeywords(sentence, g)}

IsUpsert(req) == req.op = "POST glossary"

\* C1: the glossary holds at most one entry per normalized keyword, after
\* any sequence of upserts and bulk seeds.
C1_GlossaryUnique ==
    \A i, j \in DOMAIN glossary :
        glossary[i].keyword = glossary[j].keyword => i = j

\* C2: between requests, every stored classification whose recomputation
\* from the stored text and the current glossary is defined equals that
\* recomputation.
C2_StoredConsistent ==
    \A i \in DOMAIN categorized :
        LET r == Recomputed(categorized[i].voiceFile, glossary)
        IN  ~r.raised => categorized[i].ck = r.ck

\* C3: once an upsert that changed the category of keyword k from c1 to
\* c2 has returned, the entry's category is c2, one sweep has recomputed every stored
\* classification, and every sentence of a stored transcript whose only
\* glossary match is k is in the c2 list and not in the c1 list.
C3_UpdateTriggersSweep ==
    (IsUpsert(last) /\ last.kind = "updated" /\ last.ret = <<RET_STORED>>) =>
        /\ FilterKeyword(glossary, last.keyword)[1].category = last.category
        /\ Len(runs) = Len(categorized)
        /\ \A i \in DOMAIN categorized :
             \A s \in Range(converted_text[categorized[i].voiceFile]) :
                MatchedKeywords(s, glossary) = {last.keyword} =>
                    /\ last.category \in CategoryKeys
                    /\ Contains(categorized[i].ck[last.category], s)
                    /\ last.previous \in CategoryKeys =>
                          ~Contains(categorized[i].ck[last.previous], s)

\* C4: an upsert of a keyword the glossary already holds with the same
\* category returns 2, writes nothing to the glossary, runs no sweep and
\* leaves every stored classification as it was.
C4_UnchangedSkipsSweep ==
    [][ ( /\ IsUpsert(last')
          /\ Outcome(glossary, last'.keyword, last'.category) = "unchanged" )
        => /\ glossary' = glossary
           /\ categorized' = categorized
           /\ runs' = <<>>
           /\ last'.ret = <<RET_EXISTS>> ]_vars

\* C4 witness: an unchanged upsert answered while a stored classification is
\* stale, so that a sweep would have altered it
C4_Witness ==
    /\ IsUpsert(last) /\ last.kind = "unchanged"
    /\ \E i \in DOMAIN categorized :
          LET r == Recomputed(categorized[i].voiceFile, glossary)
          IN  ~r.raised /\ categorized[i].ck # r.ck

\* C5 as stated: the value upsert returns tells inserted, updated and
\* unchanged apart, so two calls that return the same value had the same
\* outcome.
C5_ThreeOutcomes ==
    [][ ( /\ IsUpsert(last) /\ IsUpsert(last')
          /\ last.ret # <<>> /\ last.ret = last'.ret )
        => last.kind = last'.kind ]_vars

\* C5 amended: upsert returns 2 exactly when the keyword existed with the
\* same category; after an insert and after an update alike it returns 1,
\* or returns nothing when the sweep raised.
C5_TwoOutcomes ==
    IsUpsert(last) =>
        /\ last.kind = "unchanged" <=> last.ret = <<RET_EXISTS>>
        /\ last.kind \in {"inserted", "updated"} =>
              /\ last.ret \in {<<RET_STORED>>, <<>>}
              /\ last.ret = <<>> <=> last.status = HTTP_ERROR

\* C5 witness: an update that returned 1, the value an insert returns
C5_Witness ==
    IsUpsert(last) /\ last.kind = "updated" /\ last.ret = <<RET_STORED>>

\* C6: after a sweep, every stored transcript whose own reclassification
\* does not fail carries its recomputed classification, whatever happened
\* to the other transcripts.
C6_SweepIsolation ==
    (IsUpsert(last) /\ last.kind # "unchanged") =>
        \A i \in DOMAIN categorized :
            LET r == Recomputed(categorized[i].voiceFile, glossary)
            IN  ~r.raised => categorized[i].ck = r.ck

\* C7: classify never fails, whatever categories the glossary holds.
C7_ClassifyTotal ==
    \A i \in DOMAIN runs : ~runs[i].raised

\* C8: no category of a mapping classify returns holds a sentence twice.
C8_NoDuplicates ==
    \A i \in DOMAIN runs :
        ~runs[i].raised =>
            \A c \in CategoryKeys :
                \A s \in Range(runs[i].ck[c]) : Count(runs[i].ck[c], s) = 1

\* C9: two classify runs on the same text under the same glossary state give
\* the same result, within one request and from one request to the next.
C9_Idempotent ==
    /\ [](\A i, j \in DOMAIN runs :
            runs[i].text = runs[j].text => runs[i] = runs[j])
    /\ [][ glossary' = glossary =>
            \A i \in DOMAIN runs, j \in DOMAIN runs' :
                runs[i].text = runs'[j].text => runs[i] = runs'[j] ]_vars

\* C9 witness: one sweep classified two transcripts with the same text, and
\* the text has a sentence that lands in a category
C9_Witness ==
    /\ Len(runs) = 2
    /\ runs[1].text = runs[2].text
    /\ ~runs[1].raised
    /\ \E c \in CategoryKeys : Len(runs[1].ck[c]) > 0

\* C10: a sentence whose n-grams match keywords of two different categories
\* is in the list of each of them exactly once.
C10_MultiCategory ==
    \A i \in DOMAIN runs :
        ~runs[i].raised =>
            \A s \in Range(runs[i].text) :
                LET cats == MatchedCategories(s, glossary)
                IN  Cardinality(cats) >= 2 =>
                        \A c \in cats : Count(runs[i].ck[c], s) = 1

\* the sentences of the sample texts
SampleSentences == UNION {Range(t) : t \in TextSamples}

\* the category_keyword values a call may start from in this state
StartingMappings ==
    {InitCategoryKeyword} \cup {categorized[i].ck : i \in DOMAIN categorized}

C18_OtherOnlyFallback ==
    \A i \in DOMAIN runs :
        ~runs[i].raised =>
            \A s \in Range(runs[i].text) :
                MatchedKeywords(s, glossary) # {} =>
                    \A c \in CategoryKeys :
                        Contains(runs[i].ck[c], s) =>
                            c \in MatchedCategories(s, glossary)

----------------------------------------------------------------------------
(* Interleaved glossary requests: two POST /api/imistambo_glossary requests
   served at the same time.  No lock or transaction surrounds the
   database calls of a request, so the calls of the two requests
   interleave; here a request's steps are its glossary write, each
   classify_text_into_categories call of its sweep, and each save. *)

RequestIds == {"r1", "r2"}

\* request.json['category'] of the interleaved requests: keys of
\* category_keyword, so that no run raises
InterleavedCategoryInputs == {"injury", "other"}

\* a request that has not arrived yet
WaitingRequest ==
    [pc |-> "waiting", keyword |-> "", category |-> "", kind |-> "",
     snapshot |-> <<>>, doc |-> 0, sent |-> 0,
     ck |-> InitCategoryKeyword, written |-> <<>>]

\* both transcripts classified while the glossary was still empty
InitInterleaved ==
    /\ glossary = <<>>
    /\ converted_text \in [VoiceFiles -> TextSamples]
    /\ categorized =
          << [voiceFile |-> "f1",
              ck |-> clean_and_classify(InitCategoryKeyword,
                                        converted_text["f1"], <<>>).ck],
             [voiceFile |-> "f2",
              ck |-> clean_and_classify(InitCategoryKeyword,
                                        converted_text["f2"], <<>>).ck] >>
    /\ last = NoRequest
    /\ runs = <<>>
    /\ requests = [r \in RequestIds |-> WaitingRequest]
    /\ argument = <<>>
    /\ result = <<>>

\* insert_into_imist_ambo up to its write; the sweep starts on the glossary
\* the write left
ReceiveUpsert(r, tokens, category) ==
    LET keyword == NormalizeKeyword(tokens)
        w       == WriteGlossary(glossary, keyword, category)
        req     == [requests[r] EXCEPT
                      !.keyword = keyword, !.category = category,
                      !.kind = Outcome(glossary, keyword, category)]
    IN  /\ requests[r].pc = "waiting"
        /\ glossary' = w.glossary
        /\ requests' =
              [requests EXCEPT ![r] =
                 IF w.early \/ Len(categorized) = 0
                 THEN [req EXCEPT !.pc = "returned"]
                 ELSE [req EXCEPT !.pc = "classify", !.doc = 1, !.sent = 0,
                                  !.snapshot = w.glossary]]
        /\ UNCHANGED <<converted_text, categorized, last, runs,
                       argument, result>>

\* one classify_text_into_categories call of the sweep, on the glossary as
\* it is now; the first call of a document follows the reset of the loop
SweepClassifySentence(r) ==
    LET req  == requests[r]
        text == converted_text[categorized[req.doc].voiceFile]
        ck0  == IF req.sent = 0 THEN ResetCategoryKeyword(req.ck) ELSE req.ck
    IN  /\ req.pc = "classify"
        /\ IF Len(text) = 0
           THEN requests' = [requests EXCEPT ![r].ck = ck0, ![r].pc = "save"]
           ELSE LET s == text[req.sent + 1]
                    c == classify_text_into_categories(
                            ck0, s, clean_text(s), glossary)
                IN  requests' =
                       [requests EXCEPT
                          ![r].ck = c.ck,
                          ![r].sent = req.sent + 1,
                          ![r].pc = IF c.raised THEN "raised"
                                    ELSE IF req.sent + 1 = Len(text)
                                         THEN "save" ELSE "classify"]
        /\ UNCHANGED <<glossary, converted_text, categorized, last, runs,
                       argument, result>>

\* update_categorizedText_in_db of the sweep, then the next document
SweepSave(r) ==
    LET req == requests[r]
        f   == categorized[req.doc].voiceFile
    IN  /\ req.pc = "save"
        /\ categorized' = update_categorizedText_in_db(categorized, f, req.ck)
        /\ requests' =
              [requests EXCEPT
                 ![r].written = Append(@, [voiceFile |-> f, ck |-> req.ck]),
                 ![r].doc = req.doc + 1,
                 ![r].sent = 0,
                 ![r].pc = IF req.doc + 1 > Len(categorized)
                           THEN "returned" ELSE "classify"]
        /\ UNCHANGED <<glossary, converted_text, last, runs,
                       argument, result>>

NextInterleaved ==
    \/ \E r \in RequestIds, t \in KeywordInputs,
          c \in InterleavedCategoryInputs : ReceiveUpsert(r, t, c)
    \/ \E r \in RequestIds : SweepClassifySentence(r)
    \/ \E r \in RequestIds : SweepSave(r)

SpecInterleaved == InitInterleaved /\ [][NextInterleaved]_vars

\* C12: every classification a sweep writes equals classify(text, G) for
\* the glossary G that was current when the sweep started, also when
\* another upsert commits while the sweep is in progress.
C12_SweepSnapshot ==
    \A r \in RequestIds :
        \A k \in DOMAIN requests[r].written :
            LET w == requests[r].written[k]
            IN  w.ck = clean_and_classify(InitCategoryKeyword,
                                          converted_text[w.voiceFile],
                                          requests[r].snapshot).ck

\* C13: once two upsert requests that each changed the glossary have
\* returned, sweeps included, every stored classification equals
\* classify(text, final glossary).
C13_ConcurrentUpserts ==
    (\A r \in RequestIds :
        requests[r].pc = "returned" /\ requests[r].kind # "unchanged") =>
        \A i \in DOMAIN categorized :
            categorized[i].ck = Recomputed(categorized[i].voiceFile,
                                           glossary).ck

----------------------------------------------------------------------------
(* Strings as sequences of characters.  A character is a one-character
   string; the markers <prd>, <abbr> and <stop> that split_into_sentences
   writes into the text are single symbols, and the texts below contain no
   "<", so no input spells a marker. *)

digits == {"0", "1", "2", "3", "4", "5", "6", "7", "8", "9"}

alphabets ==
    {"a", "b", "c", "d", "e", "f", "g", "h", "i", "j", "k", "l", "m",
     "n", "o", "p", "q", "r", "s", "t", "u", "v", "w", "x", "y", "z",
     "A", "B", "C", "D", "E", "F", "G", "H", "I", "J", "K", "L", "M",
     "N", "O", "P", "Q", "R", "S", "T", "U", "V", "W", "X", "Y", "Z"}

\* the two groups of the regular expressions
DigitGroup == "([0-9])"
AlphaGroup == "([A-Za-z])"

\* U+201D, the closing curly quote
RightQuote == "rdquo"

\* what str.strip() removes
Whitespace == {" ", "\t", "\n"}

\* the pattern pat, a sequence of groups and literal characters, matches
\* the text t at position i
MatchesAt(pat, t, i) ==
    /\ i + Len(pat) - 1 <= Len(t)
    /\ \A k \in DOMAIN pat :
          LET ch == t[i + k - 1]
          IN  IF pat[k] = DigitGroup THEN ch \in digits
              ELSE IF pat[k] = AlphaGroup THEN ch \in alphabets
              ELSE ch = pat[k]

\* the characters the groups of pat captured in the match at i
Groups(pat, t, i) ==
    LET at == SelectSeq([k \in DOMAIN pat |-> k],
                        LAMBDA k : pat[k] \in {DigitGroup, AlphaGroup})
    IN  [n \in DOMAIN at |-> t[i + at[n] - 1]]

\* the replacement template with \1, \2, \3 filled in
Expand(tpl, gs) ==
    [k \in DOMAIN tpl |->
        IF tpl[k] = "\\1" THEN gs[1]
        ELSE IF tpl[k] = "\\2" THEN gs[2]
        ELSE IF tpl[k] = "\\3" THEN gs[3]
        ELSE tpl[k]]

\* re.search(pat, t)
re_search(pat, t) == \E i \in 1..Len(t) : MatchesAt(pat, t, i)

RECURSIVE re_sub_from(_, _, _, _)
\* the leftmost non-overlapping matches from position i on are replaced
re_sub_from(pat, tpl, t, i) ==
    IF i > Len(t) THEN <<>>
    ELSE IF MatchesAt(pat, t, i)
         THEN Expand(tpl, Groups(pat, t, i))
                 \o re_sub_from(pat, tpl, t, i + Len(pat))
         ELSE <<t[i]>> \o re_sub_from(pat, tpl, t, i + 1)

\* re.sub(pat, tpl, t); with a literal pat and tpl it is t.replace(pat, tpl)
re_sub(pat, tpl, t) == re_sub_from(pat, tpl, t, 1)

RECURSIVE str_split(_, _)
\* t.split(sep) for a one-symbol separator
str_split(t, sep) ==
    IF \A i \in DOMAIN t : t[i] # sep THEN <<t>>
    ELSE LET i == CHOOSE j \in DOMAIN t :
                     t[j] = sep /\ \A k \in 1..(j - 1) : t[k] # sep
         IN  <<SubSeq(t, 1, i - 1)>> \o str_split(SubSeq(t, i + 1, Len(t)), sep)

\* s.strip()
str_strip(s) ==
    LET kept == {i \in DOMAIN s : s[i] \notin Whitespace}
    IN  IF kept = {} THEN <<>>
        ELSE LET first == CHOOSE i \in kept : \A j \in kept : i <= j
                 final == CHOOSE i \in kept : \A j \in kept : j <= i
             IN  SubSeq(s, first, final)

----------------------------------------------------------------------------
(* split_into_sentences *)

\* the decimal mask: 3.14 keeps its dot
MaskDecimals(text) ==
    re_sub(<<DigitGroup, ".", DigitGroup>>, <<"\\1", "<prd>", "\\2">>, text)

abbr3 == <<" ", "\\1", "<abbr>", "\\2", "<abbr>", "\\3", "<abbr>", " ">>
abbr2 == <<" ", "\\1", "<abbr>", "\\2", "<abbr>", " ">>

\* the ten abbreviation substitutions, in the order of the code
MaskAbbreviations(text) ==
    LET L  == AlphaGroup
        t1 == re_sub(<<" ", L, ".", L, ".", L, ".", " ">>, abbr3, text)
        t2 == re_sub(<<" ", L, ".", L, ".", L, " ">>, abbr3, t1)
        t3 == re_sub(<<" ", L, ".", " ", L, ".", " ", L, " ">>, abbr3, t2)
        t4 == re_sub(<<" ", L, ".", " ", L, ".", " ", L, ".", " ">>, abbr3, t3)
        t5 == re_sub(<<" ", L, " ", L, " ", L, " ">>, abbr3, t4)
        t6 == re_sub(<<" ", L, ".", L, ".", " ">>, abbr2, t5)
        t7 == re_sub(<<" ", L, ".", L, " ">>, abbr2, t6)
        t8 == re_sub(<<" ", L, ".", " ", L, " ">>, abbr2, t7)
        t9 == re_sub(<<" ", L, ".", " ", L, ".", " ">>, abbr2, t8)
    IN  re_sub(<<" ", L, " ", L, " ">>, <<" ">> \o abbr2, t9)

\* a terminator that follows a quote's content moves behind the quote
MoveTerminators(text) ==
    LET t1 == IF \E i \in DOMAIN text : text[i] = RightQuote
              THEN re_sub(<<".", RightQuote>>, <<RightQuote, ".">>, text)
              ELSE text
        t2 == IF \E i \in DOMAIN t1 : t1[i] = "\""
              THEN re_sub(<<".", "\"">>, <<"\"", ".">>, t1)
              ELSE t1
    IN  IF \E i \in DOMAIN t2 : t2[i] = "!"
        THEN re_sub(<<"!", "\"">>, <<"\"", "!">>, t2)
        ELSE t2

\* <stop> after every terminator, then the masked dots come back
MarkStops(text) ==
    LET t1 == re_sub(<<".">>, <<".", "<stop>">>, text)
        t2 == re_sub(<<"!">>, <<"!", "<stop>">>, t1)
        t3 == re_sub(<<"<prd>">>, <<".">>, t2)
    IN  re_sub(<<"<abbr>">>, <<".">>, t3)

\* text.split("<stop>") of the marked text
SplitPieces(text) ==
    str_split(MarkStops(MoveTerminators(MaskAbbreviations(MaskDecimals(text)))),
              "<stop>")

\* a variant that returns the piece after the last terminator too
KeepTrailing(pieces) == pieces

\* sentences[:-1]
DropTrailing(pieces) == SubSeq(pieces, 1, Len(pieces) - 1)

split_into_sentences(text) ==
    LET sentences == DropTrailing(SplitPieces(text))
    IN  [k \in DOMAIN sentences |-> str_strip(sentences[k])]

\* characters of the generated texts
SplitAlphabet == {"a", "1", ".", "!", " ", "\""}

MaxTextLen == 5

\* the text of the splitting example
PatientText ==
    <<"P", "a", "t", "i", "e", "n", "t", " ", "i", "s", " ", "3", ".", "1",
      "4", " ", "y", "e", "a", "r", "s", " ", "o", "l", "d", ".", " ", "B",
      "P", " ", "i", "s", " ", "n", "o", "r", "m", "a", "l", ".">>

\* dotted abbreviations with their trailing dot, and a trailing fragment
AbbrDottedText ==
    <<"H", "i", "s", " ", "G", ".", "C", ".", "S", ".", " ", "w", "a", "s",
      " ", "1", "5", ".", " ", "T", "h", "e", "n", " ", "R", ".", "R", ".",
      " ", "r", "o", "s", "e", "!", " ", "o", "k">>

\* abbreviations spelled with spaces
AbbrSpacedText ==
    <<"N", "o", "w", " ", "G", " ", "C", " ", "S", " ", "a", "n", "d", " ",
      "R", " ", "R", " ", "f", "e", "l", "l", ".", " ", "G", ".", " ", "C",
      ".", " ", "S", ".", " ", "a", "n", "d", " ", "R", ".", " ", "R", ".",
      " ", "t", "o", "o", ".">>

\* dotted abbreviations without the trailing dot
AbbrOpenText ==
    <<"A", " ", "G", ".", "C", ".", "S", " ", "o", "f", " ", "3", " ", "a",
      "n", "d", " ", "R", ".", "R", " ", "o", "f", " ", "2", "0", ".">>

\* terminators inside quotes
QuotedText ==
    <<"H", "e", " ", "s", "a", "i", "d", " ", "\"", "s", "t", "o", "p",
      ".", "\"", " ", "T", "h", "e", "n", " ", "\"", "n", "o", "!", "\"",
      " ", "t", "w", "i", "c", "e">>

\* a terminator inside curly quotes
CurlyText ==
    <<"S", "h", "e", " ", "s", "a", "i", "d", " ", "ldquo", "o", "k", ".",
      RightQuote, " ", "T", "h", "e", "n", " ", "l", "e", "f", "t", ".">>

SplitSamples ==
    {PatientText, AbbrDottedText, AbbrSpacedText, AbbrOpenText, QuotedText,
     CurlyText}

\* self.text of the calls
TextInputs ==
    UNION {[1..n -> SplitAlphabet] : n \in 0..MaxTextLen} \cup SplitSamples

InitSplit ==
    /\ glossary = <<>>
    /\ converted_text = [f \in VoiceFiles |-> <<>>]
    /\ categorized = <<>>
    /\ last = NoRequest
    /\ runs = <<>>
    /\ requests = <<>>
    /\ argument \in TextInputs
    /\ result = <<>>

\* one call of split_into_sentences on self.text
SplitText ==
    /\ result = <<>>
    /\ result' = <<[op |-> "split", value |-> split_into_sentences(argument)]>>
    /\ UNCHANGED <<glossary, converted_text, categorized, last, runs,
                   requests, argument>>

NextSplit == SplitText

SpecSplit == InitSplit /\ [][NextSplit]_vars

\* C16: split places no sentence boundary at a dot that stands immediately
\* between two digits, also when several such dots follow one another, and
\* the example text yields exactly 2 sentences.
C16_DecimalGuard ==
    \A k \in DOMAIN result :
        result[k].op = "split" =>
            LET sentences == result[k].value
                pieces    == SplitPieces(argument)
            IN  /\ \A n \in DOMAIN sentences :
                      LET s == sentences[n]
                      IN  ~ /\ Len(s) >= 2
                            /\ s[Len(s)] = "."
                            /\ s[Len(s) - 1] \in digits
                            /\ Len(pieces[n + 1]) >= 1
                            /\ pieces[n + 1][1] \in digits
                /\ argument = PatientText => Len(sentences) = 2

Terminators == {".", "!"}

\* the masked dots written as dots
Unmask(t) ==
    [i \in DOMAIN t |-> IF t[i] \in {"<prd>", "<abbr>"} THEN "." ELSE t[i]]

RECURSIVE Flatten(_)
Flatten(ss) == IF Len(ss) = 0 THEN <<>> ELSE Head(ss) \o Flatten(Tail(ss))

NoWhitespace(t) == SelectSeq(t, LAMBDA ch : ch \notin Whitespace)

\* the text up to its last unmasked terminator, terminators moved behind
\* the quotes
UpToLastTerminator(text) ==
    LET moved == MoveTerminators(MaskAbbreviations(MaskDecimals(text)))
        at    == {i \in DOMAIN moved : moved[i] \in Terminators}
    IN  IF at = {} THEN <<>>
        ELSE SubSeq(moved, 1, CHOOSE i \in at : \A j \in at : j <= i)

\* C17: split returns one non-empty, trimmed sentence per terminator that
\* is not masked as decimal or abbreviation, in the order of the text, and
\* never the text after the last terminator; a text without terminator
\* yields no sentence.
C17_TrailingDiscarded ==
    \A k \in DOMAIN result :
        result[k].op = "split" =>
            LET sentences == result[k].value
                masked    == MaskAbbreviations(MaskDecimals(argument))
            IN  /\ \A n \in DOMAIN sentences :
                      LET s == sentences[n]
                      IN  /\ Len(s) > 0
                          /\ s[1] \notin Whitespace
                          /\ s[Len(s)] \in Terminators
                /\ Len(sentences) =
                      Cardinality({i \in DOMAIN masked :
                                      masked[i] \in Terminators})
                /\ NoWhitespace(Flatten(sentences)) =
                      NoWhitespace(Unmask(UpToLastTerminator(argument)))
                /\ (\A i \in DOMAIN argument : argument[i] \notin Terminators)
                      => sentences = <<>>

\* two sentences returned, one of them trimmed, and a fragment after the
\* last terminator dropped
C17_Witness ==
    \E k \in DOMAIN result :
        /\ result[k].op = "split"
        /\ Len(result[k].value) >= 2
        /\ argument[Len(argument)] \notin Terminators \cup Whitespace
        /\ \E n \in DOMAIN result[k].value :
              SplitPieces(argument)[n] # result[k].value[n]

----------------------------------------------------------------------------
(* Normalisation of one token, character by character: the keyword tokens
   of insert_into_imist_ambo and the words of
   stemming_and_lemmatization_text. *)

UpperCase == <<"A", "B", "C", "D", "E", "F", "G", "H", "I", "J", "K", "L", "M",
               "N", "O", "P", "Q", "R", "S", "T", "U", "V", "W", "X", "Y", "Z">>
LowerCase == <<"a", "b", "c", "d", "e", "f", "g", "h", "i", "j", "k", "l", "m",
               "n", "o", "p", "q", "r", "s", "t", "u", "v", "w", "x", "y", "z">>

\* sentence.lower()
str_lower(t) ==
    [i \in DOMAIN t |->
        IF \E n \in DOMAIN UpperCase : UpperCase[n] = t[i]
        THEN LowerCase[CHOOSE n \in DOMAIN UpperCase : UpperCase[n] = t[i]]
        ELSE t[i]]

\* wordnet_lemmatizer.lemmatize(ps.stem(word)) on the tokens below: the
\* stemmer lower-cases the word and takes the plural s off "hits"; no other
\* rule of the stemmer or the lemmatizer applies to a token made of g, G
\* and dots
stem_lemmatize(word) ==
    IF str_lower(word) = <<"h", "i", "t", "s">>
    THEN <<"h", "i", "t">>
    ELSE str_lower(word)

\* the patterns of stemming_and_lemmatization_text
abbr_3letter == <<AlphaGroup, ".", AlphaGroup, ".", AlphaGroup>>
abbr_2letter == <<AlphaGroup, ".", AlphaGroup>>

\* the patterns of insert_into_imist_ambo, which end in a dot
upsert_abbr_3letter == <<AlphaGroup, ".", AlphaGroup, ".", AlphaGroup, ".">>
upsert_abbr_2letter == <<AlphaGroup, ".", AlphaGroup, ".">>

\* one word of a sentence: lower-cased by remove_stopwords, then the
\* branch of stemming_and_lemmatization_text
normalizer_word(token) ==
    LET word == str_lower(token)
    IN  IF re_search(abbr_3letter, word)
        THEN re_sub(abbr_3letter, <<"\\1", "\\2", "\\3">>, word)
        ELSE IF re_search(abbr_2letter, word)
             THEN re_sub(abbr_2letter, <<"\\1", "\\2">>, word)
             ELSE stem_lemmatize(word)

\* one token of keyword.split(" ") in insert_into_imist_ambo
upsert_key(key) ==
    IF re_search(upsert_abbr_3letter, key)
    THEN re_sub(upsert_abbr_3letter, <<"\\1", "\\2", "\\3">>, key)
    ELSE IF re_search(upsert_abbr_2letter, key)
         THEN re_sub(upsert_abbr_2letter, <<"\\1", "\\2">>, key)
         ELSE stem_lemmatize(key)

TokenAlphabet == {"g", "G", "."}

MaxTokenLen == 6

\* ordinary words that the stemmer changes
WordSamples == {<<"h", "i", "t", "s">>, <<"H", "i", "t", "s">>}

TokenInputs ==
    UNION {[1..n -> TokenAlphabet] : n \in 1..MaxTokenLen} \cup WordSamples

InitToken ==
    /\ glossary = <<>>
    /\ converted_text = [f \in VoiceFiles |-> <<>>]
    /\ categorized = <<>>
    /\ last = NoRequest
    /\ runs = <<>>
    /\ requests = <<>>
    /\ argument \in TokenInputs
    /\ result = <<>>

\* the token as a keyword token of an upsert
NormalizeKey ==
    /\ \A k \in DOMAIN result : result[k].op # "upsert"
    /\ result' = Append(result, [op |-> "upsert", value |-> upsert_key(argument)])
    /\ UNCHANGED <<glossary, converted_text, categorized, last, runs,
                   requests, argument>>

\* the token as a word of a sentence being classified
NormalizeWord ==
    /\ \A k \in DOMAIN result : result[k].op # "normalizer"
    /\ result' = Append(result, [op |-> "normalizer",
                                 value |-> normalizer_word(argument)])
    /\ UNCHANGED <<glossary, converted_text, categorized, last, runs,
                   requests, argument>>

NextToken == NormalizeKey \/ NormalizeWord

SpecToken == InitToken /\ [][NextToken]_vars

\* the token is letters separated by single dots: n letters, with or
\* without a trailing dot
IsDotted(t, n) ==
    /\ Len(t) \in {2 * n - 1, 2 * n}
    /\ \A i \in DOMAIN t : IF i % 2 = 1 THEN t[i] \in alphabets ELSE t[i] = "."

IsAbbreviation(t) == IsDotted(t, 2) \/ IsDotted(t, 3)

IsWord(t) == Len(t) > 0 /\ \A i \in DOMAIN t : t[i] \in alphabets

\* C14: for every token that is a dotted 2- or 3-letter abbreviation, with
\* or without trailing dot, in upper or lower case, or an ordinary word,
\* the token upsert stores equals the root word the Normalizer produces.
C14_SameNormalization ==
    \A i, j \in DOMAIN result :
        /\ result[i].op = "upsert"
        /\ result[j].op = "normalizer"
        /\ IsAbbreviation(argument) \/ IsWord(argument)
        => result[i].value = result[j].value

\* C15: for every token that is a dotted 2- or 3-letter abbreviation the
\* Normalizer returns its letters concatenated, unstemmed, and no dot
\* remains.
C15_AbbreviationDots ==
    \A j \in DOMAIN result :
        /\ result[j].op = "normalizer"
        /\ IsAbbreviation(argument)
        => /\ \A k \in DOMAIN result[j].value : result[j].value[k] # "."
           /\ result[j].value =
                 SelectSeq(str_lower(argument), LAMBDA ch : ch # ".")

====
